---- MODULE Spec2Model ----
(***************************************************************************)
(* Spike-and-slab RBM policy of mlpack's RBM class                         *)
(* (src/mlpack/methods/ann/rbm/spike_slab_rbm_impl.hpp).                   *)
(*                                                                         *)
(* Buffers are flat column-major sequences (TLA+ index = C++ index + 1).   *)
(* A view (arma::Mat / arma::Cube built on memptr() + offset with          *)
(* copy_aux_mem = false) is a record [off, n]: its first element's C++     *)
(* index in the parameter buffer and its number of elements.               *)
(* Numbers are exact rationals <<numerator, denominator>>; the model       *)
(* covers finite arithmetic only (the initializer and the random source    *)
(* deliver finite values and the visible penalty is never 0).              *)
(***************************************************************************)
EXTENDS Integers, Sequences, FiniteSets, TLC

\* ---------------------------------------------------------------- bounds
MaxDim == 2          \* visibleSize, hiddenSize, poolSize range over 0..MaxDim
MaxCalls == 2        \* operations invoked on one model object

\* ------------------------------------------------------ program constants
numMaxTrials == 10

\* ------------------------------------------------------ exact arithmetic
Abs(x) == IF x < 0 THEN -x ELSE x

RECURSIVE GCD(_, _)
GCD(a, b) == IF b = 0 THEN a ELSE GCD(b, a % b)

\* the rational n/d (d > 0) in lowest terms
Rat(n, d) == LET g == GCD(Abs(n), d) IN <<n \div g, d \div g>>
FromInt(n) == <<n, 1>>
Zero == <<0, 1>>
One == <<1, 1>>
Half == <<1, 2>>
RAdd(a, b) == Rat(a[1] * b[2] + b[1] * a[2], a[2] * b[2])
RMul(a, b) == Rat(a[1] * b[1], a[2] * b[2])
RNeg(a) == <<-a[1], a[2]>>
RSub(a, b) == RAdd(a, RNeg(b))
\* 1.0 / a, for a # 0
RInv(a) == IF a[1] > 0 THEN <<a[2], a[1]>> ELSE <<-a[2], -a[1]>>
RLess(a, b) == a[1] * b[2] < b[1] * a[2]

RECURSIVE SumSeq(_)
SumSeq(s) == IF s = <<>> THEN Zero ELSE RAdd(Head(s), SumSeq(Tail(s)))

\* arma::dot / x.t() * y of two vectors of equal length
Dot(x, y) == SumSeq([i \in 1..Len(x) |-> RMul(x[i], y[i])])

Fill(n, v) == [i \in 1..n |-> v]
\* Mat::zeros()
Zeros(n) == Fill(n, Zero)
\* Mat::set_size(n): a buffer of another size is reallocated and holds
\* whatever the allocator returns (g); one of the same size is kept
SetSize(buf, n, g) == IF Len(buf) = n THEN buf ELSE Fill(n, g)

\* values uninitialized or out-of-buffer memory may hold
Garbage == {FromInt(1), FromInt(2)}
\* the initialization rules tried
InitRules == {1, 2}
\* slabPenalty values tried
SlabPenalties == {FromInt(2)}
\* batchSize
BatchSizes == {1}
\* radius
Radii == {FromInt(2)}

VARIABLES
  visibleSize, hiddenSize, poolSize,  \* V, H, P (constructor arguments)
  slabPenalty, batchSize, radius,     \* constructor arguments
  weightNElem,   \* weight.n_elem: the dense-RBM member `weight`, left empty
                 \* or sized hiddenSize x visibleSize as the dense policy does
  parameter, positiveGradient, negativeGradient, tempNegativeGradient,
  negativeSamples, visibleMean, spikeMean, spikeSamples, slabMean,
  weightCube, spikeBias, visiblePenalty,  \* views into parameter
  reset,
  hidden,       \* the caller's output buffer of SampleHidden / HiddenMean
  output,       \* the caller's output buffer of SampleVisible
  freeEnergy,   \* the value FreeEnergy returned last
  pc, k,        \* position in SampleVisible and its loop counter
  attempts, rejected, drawn, warnings,   \* what the running SampleVisible did
  lastCall,     \* the operation invoked last, its arguments and outcome
  corrupt,      \* memory outside a buffer was written (behaviour undefined)
  calls

vars == <<visibleSize, hiddenSize, poolSize, slabPenalty, batchSize,
          radius, weightNElem,
          parameter, positiveGradient, negativeGradient, tempNegativeGradient,
          negativeSamples, visibleMean, spikeMean, spikeSamples, slabMean,
          weightCube, spikeBias, visiblePenalty, reset, hidden, output,
          freeEnergy, pc, k, attempts, rejected, drawn, warnings, lastCall,
          corrupt, calls>>

config == <<visibleSize, hiddenSize, poolSize, slabPenalty, batchSize,
           radius, weightNElem>>
buffers == <<parameter, positiveGradient, negativeGradient,
             tempNegativeGradient>>
views == <<weightCube, spikeBias, visiblePenalty>>
transients == <<spikeMean, spikeSamples, slabMean>>
sampling == <<pc, k, attempts, rejected, drawn, warnings, output>>

NullView == [off |-> 0, n |-> 0]
NoCall == [op |-> "none", wasReset |-> FALSE, outcome |-> "none",
           input |-> <<>>, grad |-> "none"]

\* A default-constructed object: every matrix is empty, reset is false.
Init ==
  /\ visibleSize \in 0..MaxDim
  /\ hiddenSize \in 0..MaxDim
  /\ poolSize \in 0..MaxDim
  /\ slabPenalty \in SlabPenalties
  /\ batchSize \in BatchSizes
  /\ radius \in Radii
  /\ weightNElem \in {0, hiddenSize * visibleSize}
  /\ parameter = <<>> /\ positiveGradient = <<>>
  /\ negativeGradient = <<>> /\ tempNegativeGradient = <<>>
  /\ negativeSamples = <<>> /\ visibleMean = <<>>
  /\ spikeMean = <<>> /\ spikeSamples = <<>> /\ slabMean = <<>>
  /\ weightCube = NullView /\ spikeBias = NullView /\ visiblePenalty = NullView
  /\ reset = FALSE
  /\ hidden = <<>> /\ output = <<>> /\ freeEnergy = <<>>
  /\ pc = "idle" /\ k = 0
  /\ attempts = 0 /\ rejected = 0 /\ drawn = <<>> /\ warnings = 0
  /\ lastCall = NoCall
  /\ corrupt = FALSE
  /\ calls = 0

\* An operation may be invoked: no call is running, memory is intact.
CanCall == pc = "idle" /\ ~corrupt /\ calls < MaxCalls

\* ------------------------------------------------------------------ Reset
\* initializeRule.Initialize(parameter, n_elem, 1): writes every element
Initialize(buf, rule) == [i \in 1..Len(buf) |-> FromInt(1 + ((i * rule) % 3))]

\* size_t shape
Shape == (visibleSize * hiddenSize * poolSize) + visibleSize + hiddenSize

\* weightCube = Cube(parameter.memptr(), V, P, H)
ResetWeightCube == [off |-> 0, n |-> visibleSize * poolSize * hiddenSize]
\* spikeBias = Mat(parameter.memptr() + weight.n_elem, H, 1)
ResetSpikeBias == [off |-> weightNElem, n |-> hiddenSize * 1]
\* visiblePenalty = Mat(parameter.memptr() + weight.n_elem + spikeBias.n_elem, 1, 1)
ResetVisiblePenalty == [off |-> weightNElem + ResetSpikeBias.n, n |-> 1 * 1]

Reset(rule, g) ==
  /\ CanCall
  /\ parameter' = Initialize(Zeros(Shape), rule)
  /\ positiveGradient' = Zeros(Shape)
  /\ negativeGradient' = Zeros(Shape)
  /\ tempNegativeGradient' = Zeros(Shape)
  /\ negativeSamples' = SetSize(negativeSamples, visibleSize * batchSize, g)
  /\ visibleMean' = SetSize(visibleMean, visibleSize, g)
  /\ spikeMean' = SetSize(spikeMean, hiddenSize, g)
  /\ spikeSamples' = SetSize(spikeSamples, hiddenSize, g)
  /\ slabMean' = SetSize(slabMean, poolSize * hiddenSize, g)
  /\ weightCube' = ResetWeightCube
  /\ spikeBias' = ResetSpikeBias
  /\ visiblePenalty' = ResetVisiblePenalty
  /\ reset' = TRUE
  /\ lastCall' = [NoCall EXCEPT !.op = "Reset", !.wasReset = reset,
                                !.outcome = "ok"]
  /\ calls' = calls + 1
  /\ UNCHANGED <<config, hidden, freeEnergy, sampling, corrupt>>

\* ------------------------------------------------- reads through the views
\* element i (C++ index) of a view into buf; a read past the end of the
\* buffer yields whatever lies there (g)
At(buf, view, i, g) ==
  IF view.off + i + 1 \in 1..Len(buf) THEN buf[view.off + i + 1] ELSE g

\* the values a read may find past the end of the parameter buffer, when
\* a view reaches there (nothing is read there otherwise)
GarbageRead ==
  IF \/ ~reset
     \/ spikeBias.n > 0 /\ spikeBias.off + spikeBias.n > Len(parameter)
     \/ visiblePenalty.off + visiblePenalty.n > Len(parameter)
    THEN Garbage
    ELSE {One}

\* weightCube(r, p, h): slice h, column p, row r
W(r, p, h, g) ==
  At(parameter, weightCube,
     r + visibleSize * p + visibleSize * poolSize * h, g)
SpikeBiasAt(h, g) == At(parameter, spikeBias, h, g)
\* visiblePenalty(0)
Alpha(g) == At(parameter, visiblePenalty, 0, g)

\* entry p of weightCube.slice(h).t() * visible
WtV(h, p, visible, g) ==
  SumSeq([r \in 1..visibleSize |-> RMul(W(r - 1, p, h, g), visible[r])])

\* visible.t() * weightCube.slice(h) * weightCube.slice(h).t() * visible
Quad(h, visible, g) ==
  SumSeq([p \in 1..poolSize |->
            RMul(WtV(h, p - 1, visible, g), WtV(h, p - 1, visible, g))])

\* LogisticFunction::Fn: a sigmoid with values strictly between 0 and 1
\* (the rational sigmoid (1 + x / (1 + |x|)) / 2 stands for 1 / (1 + e^-x))
Logistic(x) == Rat(x[2] + Abs(x[1]) + x[1], 2 * (x[2] + Abs(x[1])))

\* ------------------------------------------- conditional distributions
\* SpikeMean: the value written to spikeMean(h)
SpikeMeanAt(h, visible, g) ==
  Logistic(RAdd(RMul(RMul(Half, RInv(slabPenalty)), Quad(h, visible, g)),
                SpikeBiasAt(h, g)))
SpikeMeanVec(visible, g) ==
  [i \in 1..hiddenSize |-> SpikeMeanAt(i - 1, visible, g)]

\* SlabMean: slabMean(j, h), the P x H matrix stored column-major
SlabMeanAt(j, h, visible, spike, g) ==
  RMul(RMul(RInv(slabPenalty), spike[h + 1]), WtV(h, j, visible, g))
SlabMeanVec(visible, spike, g) ==
  [n \in 1..(poolSize * hiddenSize) |->
     SlabMeanAt((n - 1) % poolSize, (n - 1) \div poolSize, visible, spike, g)]

\* SampleSpike: RandBernoulli(p) returns 0 or 1; every spike mean lies
\* strictly between 0 and 1, so each unit may come out either way
\* (the draws tried: all units alike, or alternating)
SpikeDraws ==
  { [i \in 1..hiddenSize |-> FromInt((a + b * i) % 2)] : a, b \in {0, 1} }

\* SampleSlab: RandNormal(slabMean(j, i), 1 / slabPenalty), the mean plus
\* the deviation the generator drew
NoiseValues == {Zero, One}
SampleSlabVec(mean, noise) == [n \in 1..Len(mean) |-> RAdd(mean[n], noise)]

\* VisibleMean: spike = input[0..H), slab = input[H..H+P*H) (P x H)
VisibleMeanVec(input, g) ==
  LET spike(i) == input[i + 1]
      slab(j, i) == input[hiddenSize + j + poolSize * i + 1]
      \* row r of weightCube.slice(i) * slab.col(i) * spike(i)
      term(r, i) ==
        RMul(SumSeq([j \in 1..poolSize |->
                       RMul(W(r, j - 1, i, g), slab(j - 1, i))]),
             spike(i))
      acc(r) == SumSeq([i \in 1..hiddenSize |-> term(r, i - 1)])
  IN [r \in 1..visibleSize |-> RMul(RInv(Alpha(g)), acc(r - 1))]

\* -------------------------------------------------------------- inputs
\* visible vectors a caller passes: 1 0 1 ... and 1 2 3 ...
VisibleInputs ==
  { [i \in 1..visibleSize |-> FromInt(i % 2)],
    [i \in 1..visibleSize |-> FromInt(i)] }
\* hidden vectors (spike, then slab) a caller passes to SampleVisible
HiddenLen == hiddenSize + poolSize * hiddenSize
HiddenInputs ==
  { Fill(HiddenLen, One) }
    \cup (IF Len(hidden) = HiddenLen THEN {hidden} ELSE {})

\* ------------------------------------- operations on an unset-up store
\* No operation tests `reset`.  Before Reset every matrix of the object is
\* empty, so the first element access is out of range: Armadillo's bounds
\* check throws std::logic_error ("fault") or, in a build without the
\* checks, the access is undefined ("undefined").  HiddenMean and
\* SampleHidden with hiddenSize = 0 touch no element and return normally.
UninitOutcomes(op) ==
  IF hiddenSize = 0 /\ op \in {"HiddenMean", "SampleHidden"}
    THEN {"ok"}
    ELSE {"fault", "undefined"}

\* ------------------------------------------------------------- Phase
GradNames == {"positiveGradient", "negativeGradient", "tempNegativeGradient"}
GradBuf(name) ==
  CASE name = "positiveGradient" -> positiveGradient
    [] name = "negativeGradient" -> negativeGradient
    [] OTHER -> tempNegativeGradient

\* Cube weightGrad(gradient.memptr(), V, P, H)
PhaseWeightGrad == [off |-> 0, n |-> visibleSize * poolSize * hiddenSize]
\* Mat spikeBiasGrad(gradient.memptr() + weightGrad.n_elem, H, 1)
PhaseSpikeBiasGrad == [off |-> PhaseWeightGrad.n, n |-> hiddenSize * 1]
\* (mutation: the penalty gradient is stored in the last element)
PhasePenaltyGradAtEnd ==
  [off |-> visibleSize * poolSize * hiddenSize + visibleSize + hiddenSize - 1,
   n |-> 1]
\* Mat visiblePenaltyGrad(gradient.memptr() + weightGrad.n_elem + spikeBiasGrad.n_elem, 1, 1)
PhaseVisiblePenaltyGrad ==
  [off |-> PhaseWeightGrad.n + PhaseSpikeBiasGrad.n, n |-> 1 * 1]

\* element-wise store of vals through a view into buf
WriteView(buf, view, vals) ==
  [n \in 1..Len(buf) |->
     IF n - 1 - view.off \in 0..(view.n - 1) THEN vals[n - view.off]
     ELSE buf[n]]
\* the view reaches past the end of the buffer
Overflows(buf, view) == view.n > 0 /\ view.off + view.n > Len(buf)

\* (mutation: the slice is scaled by the sampled spike)
PhaseScaleBySample(i, mean, samples) == samples[i + 1]
\* the factor of slice i: spikeMean(i)
PhaseScale(i, mean, samples) == mean[i + 1]

\* weightGrad.slice(i) = input * slabMean.col(i).t() * spikeMean(i), all slices
PhaseWeightVals(input, mean, samples, slab) ==
  [n \in 1..(visibleSize * poolSize * hiddenSize) |->
     LET r == (n - 1) % visibleSize
         p == ((n - 1) \div visibleSize) % poolSize
         i == (n - 1) \div (visibleSize * poolSize)
     IN RMul(RMul(input[r + 1], slab[p + poolSize * i + 1]),
             PhaseScale(i, mean, samples))]

\* visiblePenaltyGrad = -0.5 * input.t() * input
PhasePenaltyVal(input) == RMul(RNeg(Half), Dot(input, input))

\* the gradient buffer after the three stores
PhaseGradient(buf, input, mean, samples, slab) ==
  WriteView(
    WriteView(
      WriteView(buf, PhaseWeightGrad,
                PhaseWeightVals(input, mean, samples, slab)),
      PhaseSpikeBiasGrad, mean),
    PhaseVisiblePenaltyGrad, <<PhasePenaltyVal(input)>>)

Phase(input, grad, draw, g) ==
  /\ CanCall
  /\ calls' = calls + 1
  /\ IF reset
       THEN /\ spikeMean' = SpikeMeanVec(input, g)
            /\ spikeSamples' = draw
            /\ slabMean' = SlabMeanVec(input, spikeSamples', g)
            /\ LET new == PhaseGradient(GradBuf(grad), input, spikeMean',
                                        spikeSamples', slabMean')
               IN /\ positiveGradient' =
                       IF grad = "positiveGradient" THEN new
                       ELSE positiveGradient
                  /\ negativeGradient' =
                       IF grad = "negativeGradient" THEN new
                       ELSE negativeGradient
                  /\ tempNegativeGradient' =
                       IF grad = "tempNegativeGradient" THEN new
                       ELSE tempNegativeGradient
            /\ corrupt' =
                 (\/ Overflows(GradBuf(grad), PhaseWeightGrad)
                  \/ Overflows(GradBuf(grad), PhaseSpikeBiasGrad)
                  \/ Overflows(GradBuf(grad), PhaseVisiblePenaltyGrad))
            /\ lastCall' = [op |-> "Phase", wasReset |-> TRUE,
                            outcome |-> "ok", input |-> input, grad |-> grad]
       ELSE \E o \in UninitOutcomes("Phase") :
               /\ corrupt' = (o = "undefined")
               /\ lastCall' = [op |-> "Phase", wasReset |-> FALSE,
                               outcome |-> o, input |-> input, grad |-> grad]
               /\ UNCHANGED <<transients, positiveGradient, negativeGradient,
                              tempNegativeGradient>>
  /\ UNCHANGED <<config, parameter, negativeSamples, visibleMean, views,
                 reset, hidden, freeEnergy, sampling>>

\* -------------------------------------------------------- HiddenMean
\* (mutation: the slab mean is conditioned on the spike mean)
HiddenMeanSpikeIsMean(mean, draw) == mean
\* the spike the slab mean is conditioned on: the member spikeSamples
HiddenMeanSpike(mean, draw) == draw

HiddenMean(input, draw, g) ==
  /\ CanCall
  /\ calls' = calls + 1
  /\ IF reset
       THEN LET mean == SpikeMeanVec(input, g)
                slab == SlabMeanVec(input, HiddenMeanSpike(mean, draw), g)
            IN /\ spikeSamples' = draw
               /\ hidden' = mean \o slab
               /\ corrupt' = corrupt
               /\ lastCall' = [op |-> "HiddenMean", wasReset |-> TRUE,
                               outcome |-> "ok", input |-> input,
                               grad |-> "none"]
       ELSE \E o \in UninitOutcomes("HiddenMean") :
               /\ hidden' = SetSize(hidden, HiddenLen, g)
               /\ corrupt' = (o = "undefined")
               /\ lastCall' = [op |-> "HiddenMean", wasReset |-> FALSE,
                               outcome |-> o, input |-> input,
                               grad |-> "none"]
               /\ UNCHANGED spikeSamples
  /\ UNCHANGED <<config, buffers, negativeSamples, visibleMean, spikeMean,
                 slabMean, views, reset, freeEnergy, sampling>>

\* ------------------------------------------------------ SampleHidden
SampleHidden(input, draw, noise, g) ==
  /\ CanCall
  /\ calls' = calls + 1
  /\ IF reset
       THEN LET slab == SlabMeanVec(input, draw, g)
            IN /\ hidden' = draw \o SampleSlabVec(slab, noise)
               /\ corrupt' = corrupt
               /\ lastCall' = [op |-> "SampleHidden", wasReset |-> TRUE,
                               outcome |-> "ok", input |-> input,
                               grad |-> "none"]
       ELSE \E o \in UninitOutcomes("SampleHidden") :
               /\ hidden' = SetSize(hidden, HiddenLen, g)
               /\ corrupt' = (o = "undefined")
               /\ lastCall' = [op |-> "SampleHidden", wasReset |-> FALSE,
                               outcome |-> o, input |-> input,
                               grad |-> "none"]
  /\ UNCHANGED <<config, buffers, negativeSamples, visibleMean, transients,
                 views, reset, freeEnergy, sampling>>

\* -------------------------------------------------------- FreeEnergy
\* The returned value is
\*   quad - logCoef * log(2 pi / slabPenalty) - sum of softplus(arg)
\* over softplusArgs; the record keeps what is handed to log and softplus.
FreeEnergyValue(input, g) ==
  [quad |-> RMul(Half, RMul(Alpha(g), Dot(input, input))),
   logCoef |-> RMul(Half, FromInt(hiddenSize * poolSize)),
   softplusArgs |->
     [i \in 1..hiddenSize |->
        RSub(SpikeBiasAt(i - 1, g),
             RMul(Quad(i - 1, input, g),
                  RInv(RMul(FromInt(2), slabPenalty))))]]

FreeEnergy(input, g) ==
  /\ CanCall
  /\ calls' = calls + 1
  /\ IF reset
       THEN /\ freeEnergy' = FreeEnergyValue(input, g)
            /\ corrupt' = corrupt
            /\ lastCall' = [op |-> "FreeEnergy", wasReset |-> TRUE,
                            outcome |-> "ok", input |-> input,
                            grad |-> "none"]
       ELSE \E o \in UninitOutcomes("FreeEnergy") :
               /\ corrupt' = (o = "undefined")
               /\ lastCall' = [op |-> "FreeEnergy", wasReset |-> FALSE,
                               outcome |-> o, input |-> input,
                               grad |-> "none"]
               /\ UNCHANGED freeEnergy
  /\ UNCHANGED <<config, buffers, negativeSamples, visibleMean, transients,
                 views, reset, hidden, sampling>>

\* ----------------------------------------------------- SampleVisible
\* values RandNormal(visibleMean(i), 1 / visiblePenalty(0)) may return
DrawValues == {Zero, One, FromInt(2)}
DrawVectors == [1..visibleSize -> DrawValues]

\* (mutation: the first coordinate is not redrawn)
StoreDrawSkipFirst(out, draw) ==
  [i \in 1..Len(out) |-> IF i = 1 THEN out[i] ELSE draw[i]]
\* for (i = 0; i < visibleSize; i++) output(i) = RandNormal(...)
StoreDraw(out, draw) == [i \in 1..Len(out) |-> draw[i]]

\* arma::norm(output, 2) < radius, decided on the squares
Accepts(out) ==
  /\ RLess(Zero, radius)
  /\ RLess(Dot(out, out), RMul(radius, radius))

\* for (k = 0; k < numMaxTrials; k++)
LoopTest(kk) == kk < numMaxTrials
\* (mutation: the warning also fires when the last allowed attempt ended the loop)
WarnConditionOffByOne(kk) == kk >= numMaxTrials - 1
\* if (k == numMaxTrials)
WarnCondition(kk) == kk = numMaxTrials

SampleVisibleCall(input, g, u) ==
  /\ CanCall
  /\ calls' = calls + 1
  /\ k' = 0
  /\ attempts' = 0 /\ rejected' = 0 /\ drawn' = <<>> /\ warnings' = 0
  /\ IF reset
       THEN /\ visibleMean' = VisibleMeanVec(input, g)
            /\ output' = SetSize(output, visibleSize, u)
            /\ pc' = IF LoopTest(0) THEN "loop" ELSE "exit"
            /\ corrupt' = corrupt
            /\ lastCall' = [op |-> "SampleVisible", wasReset |-> TRUE,
                            outcome |-> "running", input |-> input,
                            grad |-> "none"]
       ELSE \E o \in UninitOutcomes("SampleVisible") :
               /\ visibleMean' = Zeros(visibleSize)
               /\ pc' = "idle"
               /\ corrupt' = (o = "undefined")
               /\ lastCall' = [op |-> "SampleVisible", wasReset |-> FALSE,
                               outcome |-> o, input |-> input,
                               grad |-> "none"]
               /\ UNCHANGED output
  /\ UNCHANGED <<config, buffers, negativeSamples, transients, views, reset,
                 hidden, freeEnergy>>

\* one pass of the loop body, and the k++ and test that follow it
SampleVisibleAttempt(draw) ==
  /\ pc = "loop"
  /\ output' = StoreDraw(output, draw)
  /\ drawn' = draw
  /\ attempts' = attempts + 1
  /\ IF Accepts(output')
       THEN /\ pc' = "exit"
            /\ UNCHANGED <<k, rejected>>
       ELSE /\ k' = k + 1
            /\ rejected' = rejected + 1
            /\ pc' = IF LoopTest(k + 1) THEN "loop" ELSE "exit"
  /\ UNCHANGED <<config, buffers, negativeSamples, visibleMean, transients,
                 views, reset, hidden, freeEnergy, warnings, lastCall,
                 corrupt, calls>>

\* the test after the loop, Log::Warn, and the return
SampleVisibleReturn ==
  /\ pc = "exit"
  /\ warnings' = IF WarnCondition(k) THEN warnings + 1 ELSE warnings
  /\ pc' = "idle"
  /\ lastCall' = [lastCall EXCEPT !.outcome = "ok"]
  /\ UNCHANGED <<config, buffers, negativeSamples, visibleMean, transients,
                 views, reset, hidden, freeEnergy, output, k, attempts,
                 rejected, drawn, corrupt, calls>>

\* =================================================================
\* Properties
\* =================================================================
\* V, H, P >= 1
Valid == visibleSize >= 1 /\ hiddenSize >= 1 /\ poolSize >= 1
VPH == visibleSize * poolSize * hiddenSize
\* the view holds C++ index i
InView(view, i) == i \in view.off..(view.off + view.n - 1)

\* C1: for V, H, P >= 1, after Reset() the parameter buffer and each of the
\* three gradient buffers has exactly V*P*H + H + 1 elements.
C1_BufferLengths ==
  (reset /\ Valid) =>
     /\ Len(parameter) = VPH + hiddenSize + 1
     /\ Len(positiveGradient) = VPH + hiddenSize + 1
     /\ Len(negativeGradient) = VPH + hiddenSize + 1
     /\ Len(tempNegativeGradient) = VPH + hiddenSize + 1

\* C2: after Reset() the weight-tensor view (offset 0, V*P*H elements), the
\* spike-bias view (H elements, right after it) and the visible-penalty view
\* (1 element, right after that) are pairwise disjoint and cover every index
\* of the parameter buffer exactly once, whatever weight.n_elem is.
C2_ViewsPartitionBuffer ==
  (reset /\ Valid) =>
     /\ weightCube = [off |-> 0, n |-> VPH]
     /\ spikeBias = [off |-> VPH, n |-> hiddenSize]
     /\ visiblePenalty = [off |-> VPH + hiddenSize, n |-> 1]
     /\ \A i \in 0..(Len(parameter) - 1) :
          Cardinality({v \in {"w", "b", "a"} :
             InView(CASE v = "w" -> weightCube
                      [] v = "b" -> spikeBias
                      [] OTHER -> visiblePenalty, i)}) = 1

\* C3: Reset() fails with a configuration error whenever V, H or P is zero:
\* the buffers are not allocated and reset stays false.
C3_ZeroDimensionRejected ==
  (visibleSize = 0 \/ hiddenSize = 0 \/ poolSize = 0) =>
     /\ ~reset
     /\ parameter = <<>>
     /\ (lastCall.op = "Reset" => lastCall.outcome = "configuration_error")

\* C7: the offsets and lengths at which Phase places the three gradient
\* views equal those at which Reset places the three parameter views.
C7_GradientLayoutIsParameterLayout ==
  (reset /\ Valid) =>
     /\ weightCube = PhaseWeightGrad
     /\ spikeBias = PhaseSpikeBiasGrad
     /\ visiblePenalty = PhaseVisiblePenaltyGrad

SamplingOps ==
  {"SampleHidden", "SampleVisible", "HiddenMean", "Phase", "FreeEnergy"}

\* C8: the store goes from Uninitialized to Initialized by Reset and never
\* back, and a sampling/gradient operation invoked while it is
\* Uninitialized is rejected as a usage error instead of computing on
\* unallocated buffers (stated for V, H, P >= 1).
C8_UninitializedUseRejected ==
  (Valid /\ lastCall.op \in SamplingOps /\ ~lastCall.wasReset) =>
     /\ lastCall.outcome = "usage_error"
     /\ ~corrupt

\* the half of C8 the code keeps: once set, reset is never cleared
ResetIsOneWay == [][reset => reset']_vars

\* ------------------------------------------------------ SampleVisible
Returned ==
  pc = "idle" /\ lastCall.op = "SampleVisible" /\ lastCall.outcome = "ok"

\* C4: every call of SampleVisible makes at least 1 and at most
\* numMaxTrials attempts and returns; the warning is emitted exactly once
\* iff all numMaxTrials attempts were rejected, and never otherwise.
C4_AttemptsAndWarning ==
  /\ (pc = "loop" => attempts < numMaxTrials /\ warnings = 0)
  /\ (pc = "exit" => attempts \in 1..numMaxTrials /\ warnings = 0)
  /\ Returned =>
       /\ attempts \in 1..numMaxTrials
       /\ warnings \in {0, 1}
       /\ warnings = 1 <=> (attempts = numMaxTrials /\ rejected = attempts)

\* a draw accepted on the last allowed attempt, returned without warning
C4_Witness ==
  /\ Returned
  /\ attempts = numMaxTrials /\ rejected = numMaxTrials - 1
  /\ warnings = 0

\* C5: the visible mean is computed once, before the first attempt; every
\* attempt redraws all V coordinates; the call stops at the first attempt
\* whose norm is strictly below radius and returns exactly that draw
\* (no warning => norm < radius); with no accepted attempt it returns the
\* last draw, whose norm is >= radius.
C5_ReturnedDraw ==
  LET below == /\ RLess(Zero, radius)
               /\ RLess(Dot(output, output), RMul(radius, radius))
      running == lastCall.op = "SampleVisible" /\ lastCall.wasReset
  IN
  /\ (running /\ pc # "idle") \/ Returned =>
        \E g \in GarbageRead : visibleMean = VisibleMeanVec(lastCall.input, g)
  /\ (running /\ attempts >= 1) =>
        /\ output = drawn
        /\ Len(output) = visibleSize
        /\ rejected \in {attempts - 1, attempts}
        /\ (rejected = attempts - 1) <=> below
  /\ (pc = "loop" => rejected = attempts)
  /\ Returned =>
        /\ (warnings = 0 => below)
        /\ (warnings = 1 => ~below /\ attempts = numMaxTrials)

\* the tenth draw, out of the radius, returned with the warning
C5_Witness ==
  /\ Returned /\ warnings = 1 /\ visibleSize = 2
  /\ output = drawn
  /\ ~RLess(Dot(output, output), RMul(radius, radius))

\* ------------------------------------------------------------- Phase
PhaseDone ==
  lastCall.op = "Phase" /\ lastCall.wasReset /\ ~corrupt
\* element (r, p) of weight-gradient slice h of the buffer Phase wrote
WeightGradAt(r, p, h) ==
  GradBuf(lastCall.grad)[r + visibleSize * p + visibleSize * poolSize * h + 1]
Rows == 0..(visibleSize - 1)
Cols == 0..(poolSize - 1)
Units == 0..(hiddenSize - 1)

\* C6: Phase draws a spike sample from the spike mean of visible, computes
\* the slab mean from visible and that sample, and writes: weight-gradient
\* slice h = visible * slabMean[:,h]^T * spikeMean[h]; spike-bias gradient =
\* spike mean; visible-penalty gradient = -0.5 * visible.visible.  A unit
\* whose sampled spike is 0 gets an all-zero slice though its mean is > 0.
C6_PhaseGradient ==
  PhaseDone =>
    LET v == lastCall.input
        G == GradBuf(lastCall.grad)
    IN \E g \in GarbageRead :
         /\ spikeMean = [i \in 1..hiddenSize |-> SpikeMeanAt(i - 1, v, g)]
         /\ \A h \in Units : spikeSamples[h + 1] \in {Zero, One}
         /\ \A h \in Units : \A p \in Cols :
              slabMean[p + poolSize * h + 1] =
                RMul(RMul(RInv(slabPenalty), spikeSamples[h + 1]),
                     WtV(h, p, v, g))
         /\ \A h \in Units : \A p \in Cols : \A r \in Rows :
              WeightGradAt(r, p, h) =
                RMul(RMul(v[r + 1], slabMean[p + poolSize * h + 1]),
                     spikeMean[h + 1])
         /\ \A h \in Units : G[VPH + h + 1] = spikeMean[h + 1]
         /\ G[VPH + hiddenSize + 1] = RMul(RNeg(Half), Dot(v, v))
         /\ \A h \in Units :
              spikeSamples[h + 1] = Zero =>
                /\ RLess(Zero, spikeMean[h + 1])
                /\ \A p \in Cols : \A r \in Rows : WeightGradAt(r, p, h) = Zero

\* one unit drawn 0 (zero slice, positive mean), another drawn 1
\* with a non-zero slice
C6_Witness ==
  /\ PhaseDone /\ Valid
  /\ \E h \in Units :
       /\ spikeSamples[h + 1] = Zero
       /\ RLess(Zero, spikeMean[h + 1])
       /\ \A p \in Cols : \A r \in Rows : WeightGradAt(r, p, h) = Zero
  /\ \E h \in Units :
       /\ spikeSamples[h + 1] = One
       /\ \E p \in Cols : \E r \in Rows : WeightGradAt(r, p, h) # Zero

\* C10: for V, H, P >= 1 Phase writes only gradient indices 0 .. V*P*H + H,
\* all inside the buffer Reset allocated, leaves the trailing entries of
\* that buffer and the parameter buffer as they were, and changes nothing
\* else but spikeMean, spikeSamples and slabMean.
C10_PhaseFrame ==
  [][ (lastCall'.op = "Phase" /\ lastCall'.wasReset /\ Valid
         /\ calls' = calls + 1) =>
        /\ ~corrupt'
        /\ parameter' = parameter
        /\ UNCHANGED <<views, config, reset, negativeSamples, visibleMean,
                       hidden, output, freeEnergy, pc, k>>
        /\ \A name \in GradNames :
             /\ Len(GradBuf(name)') = Len(GradBuf(name))
             /\ name # lastCall'.grad => GradBuf(name)' = GradBuf(name)
             /\ \A i \in 1..Len(GradBuf(name)) :
                  i > VPH + hiddenSize + 1 =>
                    GradBuf(name)'[i] = GradBuf(name)[i]
    ]_vars

\* Phase has written the penalty gradient and the trailing entry of the
\* buffer still holds the zero Reset put there
C10_Witness ==
  /\ PhaseDone /\ Valid /\ visibleSize = 2
  /\ Len(GradBuf(lastCall.grad)) = VPH + hiddenSize + 2
  /\ GradBuf(lastCall.grad)[VPH + hiddenSize + 1] # Zero
  /\ GradBuf(lastCall.grad)[VPH + hiddenSize + 2] = Zero
  /\ parameter # Zeros(Len(parameter))

\* -------------------------------------------------------- HiddenMean
HiddenMeanDone == lastCall.op = "HiddenMean" /\ lastCall.wasReset
\* slab entry (j, h) of the vector HiddenMean returned
HiddenSlabAt(j, h) == hidden[hiddenSize + j + poolSize * h + 1]

\* C9: HiddenMean returns H + P*H entries: first the spike mean of visible
\* (not a 0/1 sample), then the slab mean conditioned on the spike sample
\* left in spikeSamples; slab column h is zero whenever that sample is 0.
C9_HiddenMeanOutput ==
  HiddenMeanDone =>
    LET v == lastCall.input
    IN \E g \in GarbageRead :
         /\ Len(hidden) = hiddenSize + poolSize * hiddenSize
         /\ \A h \in Units :
              /\ hidden[h + 1] = SpikeMeanAt(h, v, g)
              /\ RLess(Zero, hidden[h + 1]) /\ RLess(hidden[h + 1], One)
              /\ spikeSamples[h + 1] \in {Zero, One}
         /\ \A h \in Units : \A j \in Cols :
              HiddenSlabAt(j, h) =
                RMul(RMul(RInv(slabPenalty), spikeSamples[h + 1]),
                     SumSeq([r \in 1..visibleSize |->
                        RMul(parameter[(r - 1) + visibleSize * j
                                       + visibleSize * poolSize * h + 1],
                             v[r])]))
         /\ \A h \in Units :
              spikeSamples[h + 1] = Zero =>
                \A j \in Cols : HiddenSlabAt(j, h) = Zero

\* a unit drawn 0 whose slab column is zero beside a reported mean > 0,
\* and a unit drawn 1 with a non-zero slab mean
C9_Witness ==
  /\ HiddenMeanDone /\ Valid
  /\ \E h \in Units :
       /\ spikeSamples[h + 1] = Zero
       /\ RLess(Zero, hidden[h + 1])
       /\ \A j \in Cols : HiddenSlabAt(j, h) = Zero
  /\ \E h \in Units :
       /\ spikeSamples[h + 1] = One
       /\ \E j \in Cols : HiddenSlabAt(j, h) # Zero

\* =================================================================
Next ==
  \/ \E rule \in InitRules, g \in Garbage : Reset(rule, g)
  \/ \E input \in VisibleInputs, grad \in GradNames, draw \in SpikeDraws,
        g \in GarbageRead : Phase(input, grad, draw, g)
  \/ \E input \in VisibleInputs, draw \in SpikeDraws, g \in GarbageRead :
        HiddenMean(input, draw, g)
  \/ \E input \in VisibleInputs, draw \in SpikeDraws, noise \in NoiseValues,
        g \in GarbageRead : SampleHidden(input, draw, noise, g)
  \/ \E input \in VisibleInputs, g \in GarbageRead : FreeEnergy(input, g)
  \/ \E input \in HiddenInputs, g \in GarbageRead, u \in Garbage :
        SampleVisibleCall(input, g, u)
  \/ \E draw \in DrawVectors : SampleVisibleAttempt(draw)
  \/ SampleVisibleReturn

Spec == Init /\ [][Next]_vars

\* Reset and Phase only
NextPhase ==
  \/ \E rule \in InitRules, g \in Garbage : Reset(rule, g)
  \/ \E input \in VisibleInputs, grad \in GradNames, draw \in SpikeDraws,
        g \in GarbageRead : Phase(input, grad, draw, g)
SpecPhase == Init /\ [][NextPhase]_vars

\* Reset and HiddenMean only
NextHiddenMean ==
  \/ \E rule \in InitRules, g \in Garbage : Reset(rule, g)
  \/ \E input \in VisibleInputs, draw \in SpikeDraws, g \in GarbageRead :
        HiddenMean(input, draw, g)
SpecHiddenMean == Init /\ [][NextHiddenMean]_vars

\* Reset and SampleVisible only
NextSampleVisible ==
  \/ \E rule \in InitRules, g \in Garbage : Reset(rule, g)
  \/ \E input \in HiddenInputs, g \in GarbageRead, u \in Garbage :
        SampleVisibleCall(input, g, u)
  \/ \E draw \in DrawVectors : SampleVisibleAttempt(draw)
  \/ SampleVisibleReturn
SpecSampleVisible == Init /\ [][NextSampleVisible]_vars
====
